---- MODULE Spec2Model ----
(***************************************************************************)
(* Model of mini-web-server.py: the request handler RequestHandler, its    *)
(* ordered list of cases and the primitives the cases call.                *)
(*                                                                         *)
(* A Python str is a sequence of atoms.  Data that the code inspects       *)
(* character by character (request paths, file names, the command line)    *)
(* is kept one character per atom; a literal of the source that is only    *)
(* copied (a page template, an exception text) is one atom holding the     *)
(* literal.  A Python bytes of the child's standard output is a sequence   *)
(* of one-byte atoms.                                                      *)
(***************************************************************************)
EXTENDS Integers, Sequences, FiniteSets, TLC

VARIABLES
    cwd,        \* Path.cwd(): the server root, fixed when the process starts
    fs,         \* the filesystem below the server root: node -> entry
    pc,         \* "idle": no request in hand; "done": do_GET has returned
    path,       \* self.path of the request in hand
    full_path,  \* self.full_path, str() of the resolved Path
    tested,     \* the cases whose test was called, in call order
    acted,      \* the cases whose act was called, in call order
    sent,       \* the calls of send_content, in call order
    spawned,    \* the calls of subprocess.run, in call order
    raised,     \* the exceptions raised while the request was handled
    escaped     \* the exception that left do_GET, or NoExc

vars == <<cwd, fs, pc, path, full_path, tested, acted, sent, spawned, raised, escaped>>

--------------------------------------------------------------------------
(* Bounds of the model. *)

\* Longest text of the regular file "a".
MaxTextLen == 1

\* Longest standard output of the child process.
MaxStdoutLen == 1

--------------------------------------------------------------------------
(* Python str operations. *)

\* A character that UTF-8 encodes to two bytes (U+00E9).
EAcute == "U+00E9"

\* len() of one atom, in characters.
CharLen(atom) == IF atom = EAcute THEN 1 ELSE Len(atom)

\* Bytes of one atom once str.encode (UTF-8) has encoded it.
ByteLen(atom) == IF atom = EAcute THEN 2 ELSE Len(atom)

\* len(content)
RECURSIVE StrLen(_)
StrLen(s) == IF s = <<>> THEN 0 ELSE CharLen(Head(s)) + StrLen(Tail(s))

\* len(str.encode(content))
RECURSIVE Utf8Len(_)
Utf8Len(s) == IF s = <<>> THEN 0 ELSE ByteLen(Head(s)) + Utf8Len(Tail(s))

\* s.startswith(p)
StartsWith(s, p) == Len(p) <= Len(s) /\ SubSeq(s, 1, Len(p)) = p

\* s.endswith(p)
EndsWith(s, p) == Len(p) <= Len(s) /\ SubSeq(s, Len(s) - Len(p) + 1, Len(s)) = p

\* s.split(c): a split at every occurrence of c, empty pieces kept.
RECURSIVE SplitOn(_, _)
SplitOn(s, c) ==
    IF \A i \in 1 .. Len(s) : s[i] # c
    THEN <<s>>
    ELSE LET i == CHOOSE k \in 1 .. Len(s) : s[k] = c /\ \A j \in 1 .. (k - 1) : s[j] # c
         IN  <<SubSeq(s, 1, i - 1)>> \o SplitOn(SubSeq(s, i + 1, Len(s)), c)

\* sep.join(parts)
RECURSIVE Join(_, _)
Join(parts, sep) ==
    IF parts = <<>> THEN <<>>
    ELSE IF Len(parts) = 1 THEN parts[1]
    ELSE parts[1] \o sep \o Join(Tail(parts), sep)

\* str(b) of a bytes value: the repr b'...', a newline byte shown as \n.
EscapeByte(b) == IF b = "\n" THEN <<"\\", "n">> ELSE <<b>>

RECURSIVE EscapeBytes(_)
EscapeBytes(bs) == IF bs = <<>> THEN <<>> ELSE EscapeByte(Head(bs)) \o EscapeBytes(Tail(bs))

BytesRepr(bs) == <<"b", "'">> \o EscapeBytes(bs) \o <<"'">>

--------------------------------------------------------------------------
(* pathlib. A Path is kept as its str(): an absolute, normalised string. *)

IsSegment(g) == g # <<>> /\ g # <<".">>

Segments(s) == SelectSeq(SplitOn(s, "/"), IsSegment)

RECURSIVE FromSegments(_)
FromSegments(segs) ==
    IF segs = <<>> THEN <<>> ELSE <<"/">> \o Head(segs) \o FromSegments(Tail(segs))

PathStr(segs) == IF segs = <<>> THEN <<"/">> ELSE FromSegments(segs)

\* str(base / rel): an absolute rel replaces base; empty and "." segments
\* are dropped, ".." segments are kept.
PathJoin(base, rel) ==
    IF rel # <<>> /\ rel[1] = "/"
    THEN PathStr(Segments(rel))
    ELSE PathStr(Segments(base) \o Segments(rel))

--------------------------------------------------------------------------
(* The filesystem the handler reads. *)

\* Names the code compares against.
DotPy == <<".", "p", "y">>
IndexHtml == <<"i", "n", "d", "e", "x", ".", "h", "t", "m", "l">>

\* The nodes below the server root, relative to it, in the order a
\* directory scan yields them (a directory's entries before those of its
\* sub-directories).
NodeA == <<"a">>
NodePy == <<"c">> \o DotPy
NodeD == <<"d">>
NodePyIndex == NodePy \o <<"/">> \o IndexHtml
NodeDIndex == NodeD \o <<"/">> \o IndexHtml
NodeDHidden == NodeD \o <<"/", ".", "h">>

NodeOrder == <<NodeA, NodePy, NodeD, NodePyIndex, NodeDIndex, NodeDHidden>>

Nodes == {NodeOrder[i] : i \in 1 .. Len(NodeOrder)}

Parent(n) ==
    IF n \in {NodePyIndex} THEN NodePy
    ELSE IF n \in {NodeDIndex, NodeDHidden} THEN NodeD
    ELSE <<>>

\* What stat(), open() and scandir() do with an entry:
\*   absent            no such entry
\*   file              a regular file that reads as text
\*   file_denied       a regular file whose open() raises PermissionError
\*   file_undecodable  a regular file whose read() raises UnicodeDecodeError
\*   dir               a directory
\*   dir_unlistable    a directory whose scandir() raises OSError
\*   special           an entry that is neither file nor directory (a FIFO)
\*   stat_error        stat() raises an OSError that pathlib does not swallow
FileKinds == {"file", "file_denied", "file_undecodable"}
DirKinds == {"dir", "dir_unlistable"}

Entry(kind, text) == [kind |-> kind, text |-> text]

Absent == Entry("absent", <<>>)

TextChars == {"x", EAcute}

RECURSIVE SeqsUpTo(_, _)
SeqsUpTo(S, n) ==
    IF n = 0 THEN {<<>>}
    ELSE LET shorter == SeqsUpTo(S, n - 1)
         IN  shorter \cup {Append(s, c) : s \in shorter, c \in S}

Texts == SeqsUpTo(TextChars, MaxTextLen)

FixedText == <<"<p>hi</p>">>

EntriesOf(n) ==
    IF n = NodeA THEN
        {Entry("file", t) : t \in Texts}
        \cup {Entry(k, <<>>) : k \in {"absent", "file_denied", "file_undecodable",
                                      "special", "stat_error"}}
    ELSE IF n = NodePy THEN {Absent, Entry("file", FixedText), Entry("dir", <<>>)}
    ELSE IF n = NodeD THEN {Absent, Entry("dir", <<>>), Entry("dir_unlistable", <<>>)}
    ELSE IF n = NodeDIndex THEN {Absent, Entry("file", FixedText), Entry("file_denied", <<>>)}
    ELSE {Absent, Entry("file", FixedText)}

\* An entry exists only inside a directory.
WellFormed(f) ==
    \A n \in Nodes :
        (Parent(n) # <<>> /\ f[n].kind # "absent") => f[Parent(n)].kind \in DirKinds

FileSystems ==
    {f \in {(NodeA :> a) @@ (NodePy :> b) @@ (NodeD :> c) @@ (NodePyIndex :> d)
               @@ (NodeDIndex :> e) @@ (NodeDHidden :> g) :
                 a \in EntriesOf(NodeA), b \in EntriesOf(NodePy), c \in EntriesOf(NodeD),
                 d \in EntriesOf(NodePyIndex), e \in EntriesOf(NodeDIndex),
                 g \in EntriesOf(NodeDHidden)} :
        WellFormed(f)}

\* Server roots: one plain, one with a space in its name.
Cwds == {<<"/", "s">>, <<"/", "m", " ", "s">>}

\* The absolute path of a node: the root and the node are normalised already.
AbsPath(n) == cwd \o <<"/">> \o n

\* The entry at an absolute path.
Stat(p) ==
    IF p = cwd THEN Entry("dir", <<>>)
    ELSE IF \E n \in Nodes : AbsPath(n) = p
         THEN fs[CHOOSE n \in Nodes : AbsPath(n) = p]
         ELSE Absent

IsUnder(p, dir) == dir # p /\ StartsWith(p, IF dir = <<"/">> THEN dir ELSE dir \o <<"/">>)

IsPresentUnder(n, dir) == fs[n].kind # "absent" /\ IsUnder(AbsPath(n), dir)

\* list(dir.glob('**/*')): every entry below dir, at any depth.
Glob(dir) ==
    LET below == SelectSeq(NodeOrder, LAMBDA n : IsPresentUnder(n, dir))
    IN  [i \in 1 .. Len(below) |-> AbsPath(below[i])]

\* The scan of dir, or of a directory below it, raises OSError.
GlobFails(dir) ==
    \/ Stat(dir).kind = "dir_unlistable"
    \/ \E n \in Nodes : IsPresentUnder(n, dir) /\ fs[n].kind = "dir_unlistable"

--------------------------------------------------------------------------
(* Exceptions: the class and str() of the exception. *)

Exc(type, str) == [type |-> type, str |-> str]

NoExc == Exc("none", <<>>)

ServerException(msg) == Exc("ServerException", msg)

\* OSError and its subclasses (IOError is OSError).
BrokenPipe == Exc("OSError", <<"[Errno 32] Broken pipe">>)
StatError(p) == Exc("OSError", <<"[Errno 13] Permission denied: '">> \o p \o <<"'">>)
OpenDenied(p) == Exc("OSError", <<"[Errno 13] Permission denied: '">> \o p \o <<"'">>)
OpenNotAFile(p) == Exc("OSError", <<"[Errno 21] Is a directory: '">> \o p \o <<"'">>)
ScanError(p) == Exc("OSError", <<"[Errno 5] Input/output error: '">> \o p \o <<"'">>)
NoInterpreter == Exc("OSError", <<"[Errno 2] No such file or directory: 'python'">>)

\* UnicodeDecodeError is a ValueError, not an OSError.
DecodeError == Exc("ValueError", <<"'utf-8' codec can't decode byte 0xff in position 0: invalid start byte">>)

--------------------------------------------------------------------------
(* What the environment decides while one request is handled:             *)
(*   writes[k]  whether the k-th response write reaches the client        *)
(*   spawn      whether the interpreter can be started                    *)
(*   stdout     what the child process prints                             *)

StdoutBytes == {"h", "\n"}

Stdouts == SeqsUpTo(StdoutBytes, MaxStdoutLen)

\* do_GET calls send_content at most three times (BaseCase.handle_file,
\* the handle_error of its except clause, the handle_error of do_GET).
WriteSlots == 1 .. 3

Envs ==
    [writes : [WriteSlots -> {"ok", "fail"}], spawn : {"ok"}, stdout : Stdouts]
    \cup [writes : [WriteSlots -> {"ok", "fail"}], spawn : {"missing"}, stdout : {<<>>}]

--------------------------------------------------------------------------
(* RequestHandler: the state of one request, and the primitives.          *)

\* The handler as do_GET finds it.
NewHandler(raw) ==
    [path |-> raw, full_path |-> <<>>, tested |-> <<>>, acted |-> <<>>,
     sent |-> <<>>, spawned |-> <<>>, raised |-> <<>>]

\* K applied to the value of v, v evaluated once: the result of a call,
\* bound to a name as the statement after the call finds it.
Once(v, K(_)) == CHOOSE out \in {K(x) : x \in {v}} : TRUE

\* A call's outcome: the handler after it and the exception it raised.
Returned(h) == [h |-> h, exc |-> NoExc]
Raised(h, exc) == [h |-> [h EXCEPT !.raised = Append(@, exc)], exc |-> exc]

error_page(p, msg) ==
    <<"\n        <html>\n        <body>\n        <h1>Error accessing ">> \o p
    \o <<"</h1>\n        <p>">> \o msg
    \o <<"</p>\n        </body>\n        </html>\n        ">>

directory_listing_page(items) ==
    <<"\n        <html>\n        <body>\n        <ul>\n        ">> \o items
    \o <<"\n        </ul>\n        </body>\n        </html>\n        ">>

\* send_content: status line, Content-type, Content-Length: len(content),
\* end of headers, then the encoded body.  The write to the client raises
\* OSError when the environment says so.
send_content(h, env, content, status) ==
    LET k == Len(h.sent) + 1
        ok == k \notin WriteSlots \/ env.writes[k] = "ok"
        call == [status |-> status,
                 content_type |-> "text/html",
                 content_length |-> StrLen(content),
                 content |-> content,
                 written |-> IF ok THEN Utf8Len(content) ELSE 0,
                 ok |-> ok]
        h1 == [h EXCEPT !.sent = Append(@, call)]
    IN  IF ok THEN Returned(h1) ELSE Raised(h1, BrokenPipe)

\* handle_error: the error page with the request path and the message, 404.
handle_error(h, env, msg) == send_content(h, env, error_page(h.path, msg), 404)

\* open(full_path_to_file, 'r') and f.read(): the text of a file entry is
\* the str that the read in text mode returns.
ReadText(p) ==
    LET e == Stat(p)
    IN  IF e.kind = "file" THEN [text |-> e.text, exc |-> NoExc]
        ELSE IF e.kind = "file_undecodable" THEN [text |-> <<>>, exc |-> DecodeError]
        ELSE IF e.kind = "file_denied" THEN [text |-> <<>>, exc |-> OpenDenied(p)]
        ELSE [text |-> <<>>, exc |-> OpenNotAFile(p)]

cannot_be_read(p, exc) == <<"'">> \o p \o <<"' cannot be read: ">> \o exc.str

\* BaseCase.handle_file: the read and the send are inside one try whose
\* except clause catches IOError only.
handle_file(h, env, full_path_to_file) ==
    Once(ReadText(full_path_to_file), LAMBDA rd :
        IF rd.exc.type = "OSError"
        THEN handle_error(Raised(h, rd.exc).h, env, cannot_be_read(full_path_to_file, rd.exc))
        ELSE IF rd.exc # NoExc
        THEN Raised(h, rd.exc)
        ELSE Once(send_content(h, env, rd.text, 200), LAMBDA r :
                 IF r.exc.type = "OSError"
                 THEN handle_error(r.h, env, cannot_be_read(full_path_to_file, r.exc))
                 ELSE r))

\* BaseCase.index_path
index_path(h) == PathJoin(h.full_path, IndexHtml)

\* run_cgi_script: "python " + path, split at every space, run, and the
\* str() of the captured bytes sent as the body.
run_cgi_script(h, env, path_to_executable) ==
    LET cmd == <<"p", "y", "t", "h", "o", "n", " ">> \o path_to_executable
        argv == SplitOn(cmd, " ")
    IN  IF env.spawn = "missing"
        THEN Raised(h, NoInterpreter)
        ELSE send_content([h EXCEPT !.spawned = Append(@, [argv |-> argv, stdout |-> env.stdout])],
                          env, BytesRepr(env.stdout), 200)

\* '<li>{0}</li>'.format(file)
Bullet(file) == <<"<li>">> \o file \o <<"</li>">>

\* not str(file).startswith('.')
Listed(file) == ~StartsWith(file, <<".">>)

cannot_be_listed(p, exc) == <<"'">> \o p \o <<"' cannot be listed: ">> \o exc.str

\* list_directory_contents: the glob, the page and the send are inside one
\* try whose except clause catches OSError.
list_directory_contents(h, env, full_path_to_directory) ==
    IF GlobFails(full_path_to_directory)
    THEN LET e == ScanError(full_path_to_directory)
         IN  handle_error(Raised(h, e).h, env, cannot_be_listed(h.path, e))
    ELSE LET contents == SelectSeq(Glob(full_path_to_directory), Listed)
             bullets == [i \in 1 .. Len(contents) |-> Bullet(contents[i])]
             page == directory_listing_page(Join(bullets, <<"\n">>))
         IN  Once(send_content(h, env, page, 200), LAMBDA r :
                 IF r.exc.type = "OSError"
                 THEN handle_error(r.h, env, cannot_be_listed(h.path, r.exc))
                 ELSE r)

--------------------------------------------------------------------------
(* The cases. A test yields a truth value or raises.                      *)

Tested(val) == [val |-> val, exc |-> NoExc]
TestRaised(exc) == [val |-> FALSE, exc |-> exc]

\* Path.exists(), Path.is_file(), Path.is_dir(): stat() and a look at the
\* file type; an OSError other than "no such entry" is raised again.
exists(p) ==
    IF Stat(p).kind = "stat_error" THEN TestRaised(StatError(p))
    ELSE Tested(Stat(p).kind # "absent")

is_file(p) ==
    IF Stat(p).kind = "stat_error" THEN TestRaised(StatError(p))
    ELSE Tested(Stat(p).kind \in FileKinds)

is_dir(p) ==
    IF Stat(p).kind = "stat_error" THEN TestRaised(StatError(p))
    ELSE Tested(Stat(p).kind \in DirKinds)

\* a and b, b evaluated only when a is true
AndThen(a, b) == IF a.exc # NoExc \/ ~a.val THEN a ELSE b

Not(a) == IF a.exc # NoExc THEN a ELSE Tested(~a.val)

\* CaseCGIFile.test: full_path.is_file is the bound method, not a call, and
\* is true of every path; the suffix alone decides.
CaseCGIFile_test(h) == Tested(TRUE /\ EndsWith(h.full_path, DotPy))

CaseCGIFile_act(h, env) == run_cgi_script(h, env, h.full_path)

CaseNoFile_test(h) == Not(exists(h.full_path))

\* The message is a plain string literal, not an f-string.
CaseNoFile_act(h, env) ==
    Raised(h, ServerException(<<"f'{request_handler.path}' ", "not found">>))

CaseExistingFile_test(h) == is_file(h.full_path)

\* The file rule with the act of the index rule: it reads index.html below
\* the path instead of the path.
CaseExistingFile_act_reads_index(h, env) == handle_file(h, env, index_path(h))

CaseExistingFile_act(h, env) == handle_file(h, env, h.full_path)

CaseDirectoryIndexFile_test(h) == AndThen(is_dir(h.full_path), is_file(index_path(h)))

CaseDirectoryIndexFile_act(h, env) == handle_file(h, env, index_path(h))

CaseDirectoryNoIndexFile_test(h) == AndThen(is_dir(h.full_path), Not(is_file(index_path(h))))

CaseDirectoryNoIndexFile_act(h, env) == list_directory_contents(h, env, h.full_path)

CaseAlwaysFail_test(h) == Tested(TRUE)

CaseAlwaysFail_act(h, env) ==
    Raised(h, ServerException(<<"Unknown object '">> \o h.path \o <<"'">>))

\* The list with the existence rule moved in front of the script rule.
cases_existence_first ==
    <<"CaseNoFile", "CaseCGIFile", "CaseExistingFile",
      "CaseDirectoryIndexFile", "CaseDirectoryNoIndexFile", "CaseAlwaysFail">>

\* RequestHandler.cases
cases ==
    <<"CaseCGIFile", "CaseNoFile", "CaseExistingFile",
      "CaseDirectoryIndexFile", "CaseDirectoryNoIndexFile", "CaseAlwaysFail">>

\* _case.test(self)
test(case, h) ==
    CASE case = "CaseCGIFile" -> CaseCGIFile_test(h)
      [] case = "CaseNoFile" -> CaseNoFile_test(h)
      [] case = "CaseExistingFile" -> CaseExistingFile_test(h)
      [] case = "CaseDirectoryIndexFile" -> CaseDirectoryIndexFile_test(h)
      [] case = "CaseDirectoryNoIndexFile" -> CaseDirectoryNoIndexFile_test(h)
      [] case = "CaseAlwaysFail" -> CaseAlwaysFail_test(h)

\* _case.act(self)
act(case, h, env) ==
    CASE case = "CaseCGIFile" -> CaseCGIFile_act(h, env)
      [] case = "CaseNoFile" -> CaseNoFile_act(h, env)
      [] case = "CaseExistingFile" -> CaseExistingFile_act(h, env)
      [] case = "CaseDirectoryIndexFile" -> CaseDirectoryIndexFile_act(h, env)
      [] case = "CaseDirectoryNoIndexFile" -> CaseDirectoryNoIndexFile_act(h, env)
      [] case = "CaseAlwaysFail" -> CaseAlwaysFail_act(h, env)

\* for case in self.cases: if _case.test(self): _case.act(self); break
RECURSIVE RunCases(_, _, _)
RunCases(h, env, i) ==
    IF i > Len(cases) THEN Returned(h)
    ELSE LET h1 == [h EXCEPT !.tested = Append(@, cases[i])]
         IN  Once(test(cases[i], h), LAMBDA t :
                 IF t.exc # NoExc THEN Raised(h1, t.exc)
                 ELSE IF t.val THEN act(cases[i], [h1 EXCEPT !.acted = Append(@, cases[i])], env)
                 ELSE RunCases(h1, env, i + 1))

\* self.full_path = Path.cwd() / self.path[1:]
ResolvePath(raw) == PathJoin(cwd, Tail(raw))

\* do_GET: resolve, run the cases; any Exception goes to handle_error,
\* whose own exception leaves do_GET.
Handle(raw, env) ==
    LET h0 == [NewHandler(raw) EXCEPT !.full_path = ResolvePath(raw)]
    IN  Once(RunCases(h0, env, 1), LAMBDA r :
            IF r.exc = NoExc THEN r ELSE handle_error(r.h, env, r.exc.str))

--------------------------------------------------------------------------
(* The state machine. *)

\* The request paths the transport delivers.
Requests ==
    {<<"/">>,
     <<"/">> \o NodeA,
     <<"/">> \o NodePy,
     <<"/">> \o NodePyIndex,
     <<"/">> \o NodeD,
     <<"/">> \o NodeDIndex}

Init ==
    /\ cwd \in Cwds
    /\ fs \in FileSystems
    /\ pc = "idle"
    /\ path = <<>>
    /\ full_path = <<>>
    /\ tested = <<>>
    /\ acted = <<>>
    /\ sent = <<>>
    /\ spawned = <<>>
    /\ raised = <<>>
    /\ escaped = NoExc

\* One GET request, from the transport's call of do_GET to its return.
do_GET ==
    /\ pc = "idle"
    /\ \E raw \in Requests, env \in Envs :
         \E r \in {Handle(raw, env)} :
             /\ path' = r.h.path
             /\ full_path' = r.h.full_path
             /\ tested' = r.h.tested
             /\ acted' = r.h.acted
             /\ sent' = r.h.sent
             /\ spawned' = r.h.spawned
             /\ raised' = r.h.raised
             /\ escaped' = r.exc
    /\ pc' = "done"
    /\ UNCHANGED <<cwd, fs>>

\* The transport completes the exchange and drops the handler object; the
\* next request gets a new one.
Finish ==
    /\ pc = "done"
    /\ pc' = "idle"
    /\ path' = <<>>
    /\ full_path' = <<>>
    /\ tested' = <<>>
    /\ acted' = <<>>
    /\ sent' = <<>>
    /\ spawned' = <<>>
    /\ raised' = <<>>
    /\ escaped' = NoExc
    /\ UNCHANGED <<cwd, fs>>

Next == do_GET \/ Finish

Spec == Init /\ [][Next]_vars

--------------------------------------------------------------------------
(* Vocabulary of the properties. *)

Done == pc = "done"

Last(s) == s[Len(s)]

\* The string s contains the string p.
Contains(s, p) == \E i \in 0 .. (Len(s) - Len(p)) : SubSeq(s, i + 1, i + Len(p)) = p

\* The handler as the tests see it once the path is resolved.
Resolved == [NewHandler(path) EXCEPT !.full_path = full_path]

\* The command line the script rule is meant to start.
Interpreter == <<"p", "y", "t", "h", "o", "n">>

\* The rules in the order the specification gives them.
RuleOrder ==
    <<"CaseCGIFile", "CaseNoFile", "CaseExistingFile",
      "CaseDirectoryIndexFile", "CaseDirectoryNoIndexFile", "CaseAlwaysFail">>

\* The predicate of a rule holds of the path in hand.
Holds(rule) == test(rule, Resolved).exc = NoExc /\ test(rule, Resolved).val

\* The predicate of a rule raises on the path in hand.
Raises(rule) == test(rule, Resolved).exc # NoExc

\* The body is the error page for the request path, around some message.
IsErrorPage(content) ==
    LET frame == error_page(path, <<>>)
        n == Len(path) + 2
    IN  /\ Len(content) >= Len(frame)
        /\ SubSeq(content, 1, n) = SubSeq(frame, 1, n)
        /\ Last(content) = Last(frame)

\* The last segment of a path.
Name(p) == Last(Segments(p))

Hidden(p) == StartsWith(Name(p), <<".">>)

NotHidden(p) == ~Hidden(p)

\* The listing page the specification describes for a directory.
ListingOf(dir) ==
    LET entries == SelectSeq(Glob(dir), NotHidden)
    IN  directory_listing_page(Join([i \in 1 .. Len(entries) |-> Bullet(entries[i])], <<"\n">>))

\* What a client is sent by one call of send_content.
Response(call) ==
    [status |-> call.status, content_type |-> call.content_type,
     content_length |-> call.content_length, content |-> call.content]

Responses(calls) == [i \in 1 .. Len(calls) |-> Response(calls[i])]

\* An environment in which every write succeeds and no script output matters.
QuietEnv == [writes |-> [k \in WriteSlots |-> "ok"], spawn |-> "ok", stdout |-> <<>>]

\* The request for the index file of the directory requested by raw.
IndexRequest(raw) ==
    IF raw = <<"/">> THEN raw \o IndexHtml ELSE raw \o <<"/">> \o IndexHtml

--------------------------------------------------------------------------
(* The claims. *)

\* C1: every request ends with exactly one call of send_content, whatever
\* rule matched and whatever failed, a failed response write included.
C1_ExactlyOneResponse == Done => Len(sent) = 1

\* C2: a request whose resolved path does not exist, whatever its suffix,
\* is answered with status 404 and a body that contains the request path
\* and the words "not found".
C2_MissingPathIs404 ==
    (Done /\ Stat(full_path).kind = "absent") =>
        /\ sent # <<>>
        /\ sent[1].status = 404
        /\ Contains(sent[1].content, path)
        /\ Contains(sent[1].content, <<"not found">>)

\* C3: whenever handling a request fails (the path is not found, or an
\* exception is raised in a rule's test or act), the request ends with a
\* response of status 404 whose body is the error page for the request
\* path, and no exception leaves do_GET.
C3_FailureIs404 ==
    (Done /\ (raised # <<>> \/ Stat(full_path).kind = "absent")) =>
        /\ escaped = NoExc
        /\ sent # <<>>
        /\ Last(sent).status = 404
        /\ IsErrorPage(Last(sent).content)

\* C4 as written: every existing regular file whose name does not end in
\* .py is answered with status 200, content type text/html and the file's
\* text as the body.
C4_EveryFileIs200 ==
    (Done /\ Stat(full_path).kind \in FileKinds /\ ~EndsWith(full_path, DotPy)) =>
        /\ sent # <<>>
        /\ sent[1].status = 200
        /\ sent[1].content_type = "text/html"
        /\ sent[1].content = Stat(full_path).text

\* C4 as amended: every existing regular file whose name does not end in
\* .py and that can be opened and read as text is answered first with
\* status 200, content type text/html and the file's text as the body; a
\* regular file that cannot be opened or decoded is answered first with
\* the 404 error page.
C4_ReadableFileIs200 ==
    (Done /\ Stat(full_path).kind \in FileKinds /\ ~EndsWith(full_path, DotPy)) =>
        /\ sent # <<>>
        /\ sent[1].content_type = "text/html"
        /\ IF Stat(full_path).kind = "file"
           THEN sent[1].status = 200 /\ sent[1].content = Stat(full_path).text
           ELSE sent[1].status = 404 /\ IsErrorPage(sent[1].content)

\* A readable file with a non-empty text has been served.
C4_Witness ==
    /\ Done
    /\ Stat(full_path).kind = "file"
    /\ ~EndsWith(full_path, DotPy)
    /\ Stat(full_path).text = <<EAcute>>
    /\ acted = <<"CaseExistingFile">>
    /\ Len(sent) = 1

\* C5: the response to a GET of a directory that holds a regular file
\* index.html equals the response to a GET of that index.html, also when
\* the directory's name ends in .py and when reading index.html fails.
C5_DirectoryEqualsIndex ==
    (/\ Done
     /\ Stat(full_path).kind \in DirKinds
     /\ Stat(index_path(Resolved)).kind \in FileKinds
     /\ \A i \in 1 .. Len(sent) : sent[i].ok) =>
        Responses(sent) = Responses(Handle(IndexRequest(path), QuietEnv).h.sent)

\* C6: a directory without index.html is answered with status 200 and the
\* listing page whose items are exactly the entries below it whose name
\* does not start with '.', in enumeration order.
C6_ListingHidesDotFiles ==
    (/\ Done
     /\ Stat(full_path).kind \in DirKinds
     /\ ~GlobFails(full_path)
     /\ Stat(index_path(Resolved)).kind \notin FileKinds) =>
        /\ sent # <<>>
        /\ sent[1].status = 200
        /\ sent[1].content = ListingOf(full_path)

\* C7: a path that ends in .py and exists as a regular file is answered
\* with status 200 and a body equal to the child's captured standard
\* output, nothing added or changed.
C7_BodyIsStdout ==
    (/\ Done
     /\ EndsWith(full_path, DotPy)
     /\ Stat(full_path).kind \in FileKinds
     /\ spawned # <<>>) =>
        /\ sent # <<>>
        /\ sent[1].status = 200
        /\ sent[1].content = spawned[1].stdout

\* C8: on every response the Content-Length header equals the number of
\* body bytes written to the transport.
C8_ContentLengthIsByteCount ==
    Done => \A i \in 1 .. Len(sent) : sent[i].ok => sent[i].content_length = sent[i].written

\* C9: the script rule starts the interpreter with exactly one argument,
\* the complete resolved path.
C9_SoleArgumentIsPath ==
    Done => \A i \in 1 .. Len(spawned) : spawned[i].argv = <<Interpreter, full_path>>

\* C10 as written: the rules are tested in the fixed order, exactly one
\* rule's action runs, that of the first rule whose predicate holds, and
\* no later rule is tested or acted.
C10_ExactlyOneRuleActs ==
    Done =>
        \E i \in 1 .. Len(RuleOrder) :
            /\ Holds(RuleOrder[i])
            /\ \A j \in 1 .. (i - 1) : ~Holds(RuleOrder[j])
            /\ tested = SubSeq(RuleOrder, 1, i)
            /\ acted = <<RuleOrder[i]>>

\* C10 as amended: the rules are tested in the fixed order up to the first
\* rule whose predicate holds or raises, and no later rule is tested or
\* acted; when that predicate holds, exactly that rule's action runs; when
\* it raises, no rule's action runs.
C10_FirstMatchActs ==
    Done =>
        \E i \in 1 .. Len(RuleOrder) :
            /\ tested = SubSeq(RuleOrder, 1, i)
            /\ \A j \in 1 .. (i - 1) : ~Holds(RuleOrder[j]) /\ ~Raises(RuleOrder[j])
            /\ Holds(RuleOrder[i]) \/ Raises(RuleOrder[i])
            /\ acted = IF Holds(RuleOrder[i]) THEN <<RuleOrder[i]>> ELSE <<>>

\* The script rule has acted on a regular file, which the file rule's
\* predicate holds of as well, and the file rule was not tested.
C10_Witness ==
    /\ Done
    /\ Stat(full_path).kind = "file"
    /\ Holds("CaseCGIFile")
    /\ Holds("CaseExistingFile")
    /\ tested = <<"CaseCGIFile">>
    /\ acted = <<"CaseCGIFile">>

====
